---- MODULE Spec2Model ----
(***************************************************************************)
(* A model of rdenticon: the configuration builder (src/src/config.rs) and *)
(* the identicon renderer (src/src/lib.rs).                                *)
(*                                                                         *)
(* f64 values are held exactly: a finite value is the rational num/den     *)
(* plus e times f64::EPSILON (e counts the EPSILONs the code adds), and    *)
(* NaN is a value of its own.  Every comparison follows IEEE 754: a        *)
(* comparison with NaN is false.  An angle is held as the fraction of a    *)
(* full turn it makes (degrees / 360), so that the 28-bit hue field fits   *)
(* the checker's integers.                                                 *)
(*                                                                         *)
(* u32 values are naturals.  A u32 subtraction whose mathematical result   *)
(* is negative ends the call: a build with overflow checks (the debug      *)
(* profile) panics there, a build without them (the release profile)       *)
(* wraps modulo 2^32 and goes on drawing with the wrapped value; the       *)
(* model records which of the two happened and follows the call no         *)
(* further.                                                                *)
(***************************************************************************)
EXTENDS Integers, Sequences, FiniteSets, TLC

VARIABLES
    debug,              \* the build profile: debug_assertions and overflow checks on
    builder,            \* ConfigBuilder.config
    stage,              \* how far the builder's call chain has come
    built,              \* what ConfigBuilder::build returned
    config,             \* the Config handed to render_identicon
    hash,               \* the 20 bytes handed to render_identicon
    pc,                 \* position inside render_identicon
    outcome,            \* "none", "returned", "panic" or "wrapped"
    image,              \* the canvas: size, background and the draw calls so far
    layout,             \* padding, size, cell, offset (lib.rs 472-476)
    hue,                \* the hash-derived hue, as a fraction of a turn
    color_candidates,   \* the five colours of the palette
    selected_indices,   \* the three role indices (!0 while unassigned)
    group,              \* 1 side, 2 corner, 3 center: the render! call in progress
    position_index,     \* the enumerate() index inside render_shape
    rotation,           \* render_shape's rotation counter (u8)
    current_transform,  \* ShapeRenderer.current_transform
    run,                \* which call of render_identicon this is (1 or 2)
    first,              \* what the first call returned
    call                \* the ShapeRenderer method called directly, with its arguments

vars == <<debug, builder, stage, built, config, hash, pc, outcome, image, layout,
          hue, color_candidates, selected_indices, group, position_index,
          rotation, current_transform, run, first, call>>

builderVars == <<builder, stage, built>>
renderVars == <<config, hash, pc, outcome, image, layout, hue, color_candidates,
                selected_indices, group, position_index, rotation,
                current_transform, run, first, call>>

-----------------------------------------------------------------------------
(* f64 *)

NaN == [nan |-> TRUE, num |-> 0, den |-> 1, e |-> 0]

R(n, d) == [nan |-> FALSE, num |-> n, den |-> d, e |-> 0]

\* x + f64::EPSILON (config.rs 86); NaN + EPSILON is NaN
AddEpsilon(x) == IF x.nan THEN x ELSE [x EXCEPT !.e = x.e + 1]

\* a < b and a <= b on f64: false when either side is NaN
Lt(a, b) ==
    /\ ~a.nan
    /\ ~b.nan
    /\ \/ a.num * b.den < b.num * a.den
       \/ a.num * b.den = b.num * a.den /\ a.e < b.e

Le(a, b) ==
    /\ ~a.nan
    /\ ~b.nan
    /\ \/ a.num * b.den < b.num * a.den
       \/ a.num * b.den = b.num * a.den /\ a.e <= b.e

\* (lo..=hi).contains(&x) and (lo..hi).contains(&x)
ContainsInclusive(lo, hi, x) == Le(lo, x) /\ Le(x, hi)

ContainsExclusive(lo, hi, x) == Le(lo, x) /\ Lt(x, hi)

\* degrees, held as a fraction of a turn
Degrees(d) == R(d, 360)

\* 360 degrees
FullTurn == R(1, 1)

-----------------------------------------------------------------------------
(* config.rs *)

DefaultSize == 256

\* a colour given by name: Rgba::white(), Rgba::transparent()
Named(name) == [name |-> name]

DefaultConfig ==
    [hues |-> <<>>,
     color_lightness |-> [start |-> R(4, 10), end |-> R(8, 10)],
     grayscale_lightness |-> [start |-> R(3, 10), end |-> R(9, 10)],
     color_saturation |-> R(5, 10),
     grayscale_saturation |-> R(0, 1),
     background_color |-> Named("white"),
     padding |-> R(8, 100),
     size |-> DefaultSize]

\* the two debug_assert!s of RangeInclusive::normalize
NormalizeAsserts(r) ==
    /\ Lt(r.start, r.end)
    /\ Le(R(0, 1), r.start)
    /\ Le(r.end, R(1, 1))

\* NormalizableRange::normalize for the five range forms; each form delegates
\* as the impls do: a..b to a..=b+EPSILON, a.. to a..=1.0, ..b to 0.0..b,
\* ..=b to 0.0..=b
NormalizeRangeInclusive(a, b) == [start |-> a, end |-> b]

NormalizeRange(a, b) == NormalizeRangeInclusive(a, AddEpsilon(b))

NormalizeRangeFrom(a) == NormalizeRangeInclusive(a, R(1, 1))

NormalizeRangeTo(b) == NormalizeRange(R(0, 1), b)

NormalizeRangeToInclusive(b) == NormalizeRangeInclusive(R(0, 1), b)

RangeForms == {"a..=b", "a..b", "a..", "..b", "..=b"}

Normalize(form, a, b) ==
    CASE form = "a..=b" -> NormalizeRangeInclusive(a, b)
      [] form = "a..b" -> NormalizeRange(a, b)
      [] form = "a.." -> NormalizeRangeFrom(a)
      [] form = "..b" -> NormalizeRangeTo(b)
      [] form = "..=b" -> NormalizeRangeToInclusive(b)

\* ConfigBuilder::build: the checks in their order, the first failing one returns
BuildResult(c) ==
    IF \E i \in 1..Len(c.hues) : ~ContainsExclusive(R(0, 1), FullTurn, c.hues[i])
    THEN [ok |-> FALSE, err |-> "InvalidHues"]
    ELSE IF Lt(c.color_lightness.start, R(0, 1)) \/ Lt(R(1, 1), c.color_lightness.end)
    THEN [ok |-> FALSE, err |-> "InvalidColorLightness"]
    ELSE IF Lt(c.grayscale_lightness.start, R(0, 1))
            \/ Lt(R(1, 1), c.grayscale_lightness.end)
    THEN [ok |-> FALSE, err |-> "InvalidGrayscaleLightness"]
    ELSE IF ~ContainsInclusive(R(0, 1), R(1, 1), c.color_saturation)
    THEN [ok |-> FALSE, err |-> "InvalidColorSaturation"]
    ELSE IF ~ContainsInclusive(R(0, 1), R(1, 1), c.grayscale_saturation)
    THEN [ok |-> FALSE, err |-> "InvalidGrayscaleSaturation"]
    ELSE IF ~ContainsInclusive(R(0, 1), R(1, 2), c.padding)
    THEN [ok |-> FALSE, err |-> "InvalidPadding"]
    ELSE [ok |-> TRUE, err |-> "none"]

-----------------------------------------------------------------------------
(* The builder's call chain.  Each setter assigns its own field and nothing
   else, so the chain is followed in the order the setters are declared; a
   setter that is not called leaves the default. *)

HuesInputs ==
    {<<>>,
     <<Degrees(0), Degrees(120), Degrees(240)>>,
     <<Degrees(0), Degrees(360)>>}

LightnessStarts == {NaN, R(-1, 2), R(0, 1), R(1, 2)}

LightnessEnds == {NaN, R(1, 2), R(1, 1), R(3, 2)}

SaturationInputs == {R(3, 2)}

GrayscaleSaturationInputs == {NaN}

PaddingInputs == {R(1, 2), R(5, 8)}

BackgroundInputs == {Named("transparent")}

SizeInputs == {64}

NotBuilt == [status |-> "none", err |-> "none", config |-> DefaultConfig]

Building(n) == built.status = "none" /\ stage < n

\* ConfigBuilder::hues
SetHues(hues) ==
    /\ Building(1)
    /\ builder' = [builder EXCEPT !.hues = hues]
    /\ stage' = 1
    /\ UNCHANGED <<built, debug, renderVars>>

\* ConfigBuilder::color_lightness and ::grayscale_lightness: normalize runs
\* first, and its debug_assert!s panic when debug assertions are compiled in
SetLightness(n, field, form, a, b) ==
    LET r == Normalize(form, a, b)
    IN /\ Building(n)
       /\ stage' = n
       /\ IF debug /\ ~NormalizeAsserts(r)
          THEN /\ built' = [NotBuilt EXCEPT !.status = "panic"]
               /\ UNCHANGED builder
          ELSE /\ builder' = [builder EXCEPT ![field] = r]
               /\ UNCHANGED built
       /\ UNCHANGED <<debug, renderVars>>

SetColorLightness(form, a, b) == SetLightness(2, "color_lightness", form, a, b)

SetGrayscaleLightness(form, a, b) ==
    SetLightness(3, "grayscale_lightness", form, a, b)

\* ConfigBuilder::color_saturation
SetColorSaturation(s) ==
    /\ Building(4)
    /\ builder' = [builder EXCEPT !.color_saturation = s]
    /\ stage' = 4
    /\ UNCHANGED <<built, debug, renderVars>>

\* ConfigBuilder::grayscale_saturation
SetGrayscaleSaturation(s) ==
    /\ Building(5)
    /\ builder' = [builder EXCEPT !.grayscale_saturation = s]
    /\ stage' = 5
    /\ UNCHANGED <<built, debug, renderVars>>

\* ConfigBuilder::background_color
SetBackgroundColor(c) ==
    /\ Building(6)
    /\ builder' = [builder EXCEPT !.background_color = c]
    /\ stage' = 6
    /\ UNCHANGED <<built, debug, renderVars>>

\* ConfigBuilder::padding
SetPadding(p) ==
    /\ Building(7)
    /\ builder' = [builder EXCEPT !.padding = p]
    /\ stage' = 7
    /\ UNCHANGED <<built, debug, renderVars>>

\* ConfigBuilder::size
SetSize(n) ==
    /\ Building(8)
    /\ builder' = [builder EXCEPT !.size = n]
    /\ stage' = 8
    /\ UNCHANGED <<built, debug, renderVars>>

\* ConfigBuilder::build
Build ==
    /\ built.status = "none"
    /\ LET res == BuildResult(builder)
       IN built' = IF res.ok
                   THEN [status |-> "ok", err |-> "none", config |-> builder]
                   ELSE [status |-> "err", err |-> res.err, config |-> DefaultConfig]
    /\ UNCHANGED <<builder, stage, debug, renderVars>>

-----------------------------------------------------------------------------
(* lib.rs: the hash decoder *)

\* into_nibbles that hands back the whole byte for each of its two nibbles
into_nibbles_whole_bytes(h) == [i \in 0..39 |-> h[i \div 2]]

\* into_nibbles: the high nibble, then the low nibble, of each byte
into_nibbles(h) ==
    [i \in 0..39 |-> IF i % 2 = 0 THEN h[i \div 2] \div 16 ELSE h[i \div 2] % 16]

\* pad_zeroes::<LEN, 8>: the LEN nibbles right-aligned in 8, zeroes on the left
pad_zeroes(nibbles, start, LEN) ==
    [i \in 0..7 |-> IF i < 8 - LEN THEN 0 ELSE nibbles[start + i - (8 - LEN)]]

\* hash_substring_u32::<LEN>: the nibbles joined into 4 bytes, read big-endian
hash_substring_u32(nibbles, start, LEN) ==
    LET padded == pad_zeroes(nibbles, start, LEN)
        bytes == [i \in 0..3 |-> padded[i * 2] * 16 + padded[i * 2 + 1]]
    IN ((bytes[0] * 256 + bytes[1]) * 256 + bytes[2]) * 256 + bytes[3]

\* 0xfffffff, the divisor of the hue (lib.rs 479)
HueDivisor == 268435455

\* 360.0 * hash_substring_u32::<7>(&hash, 33) as f64 / 0xfffffff as f64, held as
\* the fraction of a turn: the product is below 2^53 and so exact, and the
\* quotient is correctly rounded, so it is 360.0 exactly when the field is all ones
HashHue(nibbles) == R(hash_substring_u32(nibbles, 33, 7), HueDivisor)

-----------------------------------------------------------------------------
(* lib.rs: the palette *)

\* Config::resolve_hue: (hue / 360.0 * len) as usize indexes self.hues; an index
\* past the end panics.  hue / 360.0 is the fraction the model holds.
ResolveHueIndex(c, h) == (h.num * Len(c.hues)) \div h.den

resolve_hue(c, h) ==
    IF Len(c.hues) = 0
    THEN [ok |-> TRUE, hue |-> h]
    ELSE IF ResolveHueIndex(c, h) < Len(c.hues)
         THEN [ok |-> TRUE, hue |-> c.hues[ResolveHueIndex(c, h) + 1]]
         ELSE [ok |-> FALSE, hue |-> h]

\* corrected_hsl_to_rgb(hue, saturation, resolve_*_lightness(l)).into_rgba(): the
\* colour is held as the arguments it is computed from
Resolve(h, saturation, range, l) ==
    [h |-> h, s |-> saturation, range |-> range, l |-> l]

\* Config::color_candidates, after resolve_hue
ColorCandidates(c, h) ==
    [light_gray |-> Resolve(h, c.grayscale_saturation, c.grayscale_lightness, R(1, 1)),
     dark_gray |-> Resolve(h, c.grayscale_saturation, c.grayscale_lightness, R(0, 1)),
     light_color |-> Resolve(h, c.color_saturation, c.color_lightness, R(1, 1)),
     mid_color |-> Resolve(h, c.color_saturation, c.color_lightness, R(1, 2)),
     dark_color |-> Resolve(h, c.color_saturation, c.color_lightness, R(0, 1))]

\* as if the first two arms of the match were exchanged
get_from_rotation_index_swapped(cc, index) ==
    CASE index = 0 -> cc.mid_color
      [] index = 1 -> cc.dark_gray
      [] index = 2 -> cc.light_gray
      [] index = 3 -> cc.light_color
      [] OTHER -> cc.dark_color

\* ColorCandidates::get_from_rotation_index
get_from_rotation_index(cc, index) ==
    CASE index = 0 -> cc.dark_gray
      [] index = 1 -> cc.mid_color
      [] index = 2 -> cc.light_gray
      [] index = 3 -> cc.light_color
      [] OTHER -> cc.dark_color

-----------------------------------------------------------------------------
(* lib.rs: the role selector *)

\* !0 as u8, the value of an index not yet assigned (lib.rs 482)
Unassigned == 255

\* as if the array outlived the call and were not initialised again
SelectedIndicesKept == selected_indices

SelectedIndicesInit == [i \in 0..2 |-> Unassigned]

\* contains_opt!
contains_opt(sel, value) == sel[0] = value \/ sel[1] = value \/ sel[2] = value

\* as if a candidate were replaced only when its own value is already assigned,
\* not when the other value of its pair is
SelectIndexSameValue(sel, nibbles, i) ==
    LET index == nibbles[i + 8] % 5
        chosen == IF index \in {0, 2, 3, 4} /\ contains_opt(sel, index) THEN 1 ELSE index
    IN [sel EXCEPT ![i] = chosen]

\* one turn of the loop `for i in 0..3`
SelectIndex(sel, nibbles, i) ==
    LET index == nibbles[i + 8] % 5
        chosen ==
            IF index \in {0, 4} /\ (contains_opt(sel, 0) \/ contains_opt(sel, 4))
            THEN 1
            ELSE IF index \in {2, 3} /\ (contains_opt(sel, 2) \/ contains_opt(sel, 3))
            THEN 1
            ELSE index
    IN [sel EXCEPT ![i] = chosen]

SelectIndices(sel, nibbles) ==
    SelectIndex(SelectIndex(SelectIndex(sel, nibbles, 0), nibbles, 1), nibbles, 2)

-----------------------------------------------------------------------------
(* lib.rs: the layout *)

\* (x * n as f64).round() as u32: round half away from zero; the cast takes NaN
\* and negative values to 0
RoundTimes(x, n) ==
    IF x.nan \/ x.num < 0
    THEN 0
    ELSE (2 * x.num * n + x.den) \div (2 * x.den)

\* as if the grid began at the padding, not centred in the padded canvas
LayoutOffsetIsPadding(c) ==
    LET padding == RoundTimes(c.padding, c.size)
        size == c.size - padding * 2
    IN [ok |-> size >= 0, padding |-> padding, size |-> size, cell |-> size \div 4,
        offset |-> padding]

\* as if the two cells left of the centre were not subtracted
LayoutOffsetAtCentre(c) ==
    LET padding == RoundTimes(c.padding, c.size)
        size == c.size - padding * 2
    IN [ok |-> size >= 0, padding |-> padding, size |-> size, cell |-> size \div 4,
        offset |-> padding + size \div 2]

\* lib.rs 472-476; ok is false when config.size - padding * 2 is negative
Layout(c) ==
    LET padding == RoundTimes(c.padding, c.size)
        size == c.size - padding * 2
        cell == size \div 4
        offset == padding + size \div 2 - cell * 2
    IN [ok |-> size >= 0, padding |-> padding, size |-> size, cell |-> cell,
        offset |-> offset]

-----------------------------------------------------------------------------
(* lib.rs: Transform and ShapeRenderer.  A point or an extent is a pair. *)

\* Transform::default()
TransformDefault == [x |-> 0, y |-> 0, rotation |-> 0, right |-> 0, bottom |-> 0]

\* Transform::new
TransformNew(x, y, size, rot) ==
    [x |-> x, y |-> y, rotation |-> rot, right |-> x + size, bottom |-> y + size]

\* Transform::transform with the arms of rotations 1 and 3 exchanged
TransformCounterClockwise(t, p, box) ==
    CASE t.rotation = 0 -> <<t.x + p[1], t.y + p[2]>>
      [] t.rotation = 3 -> <<t.right - p[2] - box[2], t.y + p[1]>>
      [] t.rotation = 2 -> <<t.right - p[1] - box[1], t.bottom - p[2] - box[2]>>
      [] OTHER -> <<t.x + p[2], t.bottom - p[1] - box[1]>>

\* Transform::transform
Transform(t, p, box) ==
    CASE t.rotation = 0 -> <<t.x + p[1], t.y + p[2]>>
      [] t.rotation = 1 -> <<t.right - p[2] - box[2], t.y + p[1]>>
      [] t.rotation = 2 -> <<t.right - p[1] - box[1], t.bottom - p[2] - box[2]>>
      [] OTHER -> <<t.x + p[2], t.bottom - p[1] - box[1]>>

\* whether every u32 subtraction of Transform::transform stays at or above zero
TransformOk(t, p, box) ==
    CASE t.rotation = 0 -> TRUE
      [] t.rotation = 1 -> t.right - p[2] - box[2] >= 0
      [] t.rotation = 2 -> t.right - p[1] - box[1] >= 0 /\ t.bottom - p[2] - box[2] >= 0
      [] OTHER -> t.bottom - p[1] - box[1] >= 0

\* one draw call on the image: a polygon with its vertices, an ellipse with the
\* two corners of its bounding box, a rectangle with its position and its size
Draw(kind, pts, color) == [kind |-> kind, pts |-> pts, color |-> color]

\* ShapeRenderer::polygon
Polygon(t, color, points) ==
    [ok |-> \A i \in 1..Len(points) : TransformOk(t, points[i], <<0, 0>>),
     draws |-> <<Draw("polygon",
                      [i \in 1..Len(points) |-> Transform(t, points[i], <<0, 0>>)],
                      color)>>]

\* ShapeRenderer::circle
Circle(t, color, top_left, diameter) ==
    LET p == Transform(t, top_left, <<diameter, diameter>>)
    IN [ok |-> TransformOk(t, top_left, <<diameter, diameter>>),
        draws |-> <<Draw("ellipse", <<p, <<p[1] + diameter, p[2] + diameter>>>>, color)>>]

\* ShapeRenderer::triangle with the omitted corner counted from the top-left one
TriangleDropsFromTopLeft(t, ROTATION, color, p, size) ==
    LET a == <<p[1] + size[1], p[2]>>
        b == <<p[1] + size[1], p[2] + size[2]>>
        c == <<p[1], p[2] + size[2]>>
        d == <<p[1], p[2]>>
        points == CASE ROTATION % 4 = 0 -> <<a, b, c>>
                    [] ROTATION % 4 = 1 -> <<b, c, d>>
                    [] ROTATION % 4 = 2 -> <<a, c, d>>
                    [] OTHER -> <<a, b, d>>
    IN Polygon(t, color, points)

\* ShapeRenderer::triangle::<ROTATION>
Triangle(t, ROTATION, color, p, size) ==
    LET a == <<p[1] + size[1], p[2]>>
        b == <<p[1] + size[1], p[2] + size[2]>>
        c == <<p[1], p[2] + size[2]>>
        d == <<p[1], p[2]>>
        points == CASE ROTATION % 4 = 0 -> <<b, c, d>>
                    [] ROTATION % 4 = 1 -> <<a, c, d>>
                    [] ROTATION % 4 = 2 -> <<a, b, d>>
                    [] OTHER -> <<a, b, c>>
    IN Polygon(t, color, points)

\* ShapeRenderer::rectangle: the extent is swapped under an odd rotation and the
\* height is drawn one pixel taller
Rectangle(t, color, top_left, size) ==
    LET p == Transform(t, top_left, size)
        swapped == IF t.rotation % 2 = 1 THEN <<size[2], size[1]>> ELSE size
    IN [ok |-> TransformOk(t, top_left, size),
        draws |-> <<Draw("rectangle", <<p, <<swapped[1], swapped[2] + 1>>>>, color)>>]

\* ShapeRenderer::rhombus
Rhombus(t, color, top_left, size) ==
    Polygon(t, color,
            <<<<top_left[1] + size[1] \div 2, top_left[2]>>,
              <<top_left[1] + size[1], top_left[2] + size[2] \div 2>>,
              <<top_left[1] + size[1] \div 2, top_left[2] + size[2]>>,
              <<top_left[1], top_left[2] + size[2] \div 2>>>>)

\* a chain of draw calls: the second runs after the first
Then(first_call, second_call) ==
    [ok |-> first_call.ok /\ second_call.ok,
     draws |-> first_call.draws \o second_call.draws]

\* a value computed by u32 subtractions before the calls that use it
Checked(nonnegative, calls) == [calls EXCEPT !.ok = nonnegative /\ calls.ok]

Nothing == [ok |-> TRUE, draws |-> <<>>]

\* (cell_size as f64 * n/d) as u32.  The f64 product truncates to the exact
\* floor for every factor the shapes use while cell_size < 180.
Scaled(cell_size, n, d) == (cell_size * n) \div d

-----------------------------------------------------------------------------
(* lib.rs: the shape library *)

\* render_outer
render_outer(t, color, background_color, cell_size, shape_index, pos) ==
    CASE shape_index % 4 = 0 ->
           Triangle(t, 0, color, <<0, 0>>, <<cell_size, cell_size>>)
      [] shape_index % 4 = 1 ->
           Triangle(t, 0, color, <<0, cell_size \div 2>>,
                    <<cell_size, cell_size \div 2>>)
      [] shape_index % 4 = 2 ->
           Rhombus(t, color, <<0, 0>>, <<cell_size, cell_size>>)
      [] OTHER ->
           LET m == cell_size \div 6
           IN Checked(cell_size - 2 * m >= 0,
                      Circle(t, color, <<m, m>>, cell_size - 2 * m))

\* render_center, its 14 variants
render_center(t, color, background_color, cell_size, shape_index, pos) ==
    LET c == cell_size
        v == shape_index % 14
        full == Rectangle(t, color, <<0, 0>>, <<c, c>>)
    IN CASE v = 0 ->
              LET k == Scaled(c, 42, 100)
              IN Checked(c - k * 2 >= 0 /\ c - k >= 0,
                         Polygon(t, color,
                                 <<<<0, 0>>, <<c, 0>>, <<c, c - k * 2>>, <<c - k, c>>,
                                   <<0, c>>>>))
         [] v = 1 ->
              LET w == c \div 2
                  h == Scaled(c, 8, 10)
              IN Checked(c - w >= 0, Triangle(t, 2, color, <<c - w, 0>>, <<w, h>>))
         [] v = 2 ->
              LET w == c \div 3
                  dw == c - w
              IN Checked(dw >= 0, Rectangle(t, color, <<w, w>>, <<dw, dw>>))
         [] v = 3 ->
              LET inner == IF c > 10 THEN c \div 10 ELSE 1
                  outer == IF c < 6 THEN 1 ELSE IF c < 8 THEN 2 ELSE c \div 4
                  p == c - inner - outer
              IN Checked(p >= 0, Rectangle(t, color, <<outer, outer>>, <<p, p>>))
         [] v = 4 ->
              LET m == Scaled(c, 15, 100)
                  w == c \div 2
                  p == c - w - m
              IN Checked(p >= 0, Circle(t, color, <<p, p>>, w))
         [] v = 5 ->
              LET inner == c \div 10
                  outer == Scaled(c, 4, 10)
              IN Then(full,
                      Checked(c - inner >= 0 /\ c - outer - inner >= 0,
                              Polygon(t, background_color,
                                      <<<<outer, outer>>, <<c - inner, outer>>,
                                        <<outer + (c - outer - inner) \div 2,
                                          c - inner>>>>)))
         [] v = 6 ->
              LET tenth == c \div 10
                  four_tenths == tenth * 4
                  seven_tenths == tenth * 7
              IN Polygon(t, color,
                         <<<<0, 0>>, <<c, 0>>, <<c, seven_tenths>>,
                           <<four_tenths, four_tenths>>, <<seven_tenths, c>>,
                           <<0, c>>>>)
         [] v \in {7, 11} ->
              LET half_cell == c \div 2
                  diff == c - half_cell
              IN Checked(diff >= 0,
                         Triangle(t, 3, color, <<half_cell, half_cell>>, <<diff, diff>>))
         [] v = 8 ->
              LET half_cell == c \div 2
                  diff == c - half_cell
              IN Checked(diff >= 0,
                         Then(Rectangle(t, color, <<0, 0>>, <<c, diff>>),
                              Then(Rectangle(t, color, <<0, half_cell>>, <<diff, diff>>),
                                   Triangle(t, 1, color, <<half_cell, half_cell>>,
                                            <<diff, diff>>))))
         [] v = 9 ->
              LET inner == Scaled(c, 14, 100)
                  outer == IF c < 4 THEN 1 ELSE IF c < 6 THEN 2 ELSE Scaled(c, 35, 100)
                  p == c - outer - inner
              IN Checked(p >= 0,
                         Then(full,
                              Rectangle(t, background_color, <<outer, outer>>, <<p, p>>)))
         [] v = 10 ->
              LET inner == Scaled(c, 12, 100)
                  outer == Scaled(c, 36, 100)
              IN Then(full,
                      Checked(c - inner - outer >= 0,
                              Circle(t, background_color, <<outer, outer>>,
                                     c - inner - outer)))
         [] v = 12 ->
              LET m == c \div 4
                  p == c - m
              IN Checked(p >= 0,
                         Then(full, Rectangle(t, background_color, <<m, m>>, <<p, p>>)))
         [] v = 13 /\ pos = 0 ->
              LET m == Scaled(c, 4, 10)
                  w == Scaled(c, 12, 10)
              IN Circle(t, color, <<m, m>>, w)
         [] OTHER -> Nothing

-----------------------------------------------------------------------------
(* lib.rs: the compositor *)

\* SIDE_POSITIONS with its first two cells exchanged
SIDE_POSITIONS_exchanged ==
    <<<<2, 0>>, <<1, 0>>, <<2, 3>>, <<1, 3>>, <<0, 1>>, <<3, 1>>, <<3, 2>>, <<0, 2>>>>

SIDE_POSITIONS ==
    <<<<1, 0>>, <<2, 0>>, <<2, 3>>, <<1, 3>>, <<0, 1>>, <<3, 1>>, <<3, 2>>, <<0, 2>>>>

CORNER_POSITIONS == <<<<0, 0>>, <<3, 0>>, <<3, 3>>, <<0, 3>>>>

CENTER_POSITIONS == <<<<1, 1>>, <<2, 1>>, <<2, 2>>, <<1, 2>>>>

\* the render! calls with the center shape read from nibble 0
GroupsCenterShapeAtZero ==
    <<[shape_index |-> 2, rotation_index |-> 3, role |-> 0, render_fn |-> "outer",
       positions |-> SIDE_POSITIONS],
      [shape_index |-> 4, rotation_index |-> 5, role |-> 1, render_fn |-> "outer",
       positions |-> CORNER_POSITIONS],
      [shape_index |-> 0, rotation_index |-> -1, role |-> 2, render_fn |-> "center",
       positions |-> CENTER_POSITIONS]>>

\* the three render! calls (lib.rs 534-536): the nibble of the shape index, the
\* nibble of the rotation seed (-1 for None), the role whose colour is used,
\* the render function and the positions
Groups ==
    <<[shape_index |-> 2, rotation_index |-> 3, role |-> 0, render_fn |-> "outer",
       positions |-> SIDE_POSITIONS],
      [shape_index |-> 4, rotation_index |-> 5, role |-> 1, render_fn |-> "outer",
       positions |-> CORNER_POSITIONS],
      [shape_index |-> 1, rotation_index |-> -1, role |-> 2, render_fn |-> "center",
       positions |-> CENTER_POSITIONS]>>

\* Image::new(config.size, config.size, config.background_color)
ImageNew(size, background_color) ==
    [size |-> size, background |-> background_color, draws |-> <<>>]

NoImage == ImageNew(0, Named("none"))

\* a method of ShapeRenderer called with its arguments (a diameter is a square
\* extent, a polygon here has the one vertex top_left); none inside
\* render_identicon, whose calls are part of its own steps
MethodCall(method, ROTATION, top_left, size) ==
    [method |-> method, ROTATION |-> ROTATION, top_left |-> top_left, size |-> size]

NoCall == MethodCall("none", 0, <<0, 0>>, <<0, 0>>)

\* a rotation seed that ignores the hash
RotationSeedZero(nibbles, rotation_index) == 0

\* rotation_index.map(|idx| hash[idx]).unwrap_or_default()
RotationSeed(nibbles, rotation_index) ==
    IF rotation_index < 0 THEN 0 ELSE nibbles[rotation_index]

\* the closure of render_shape for one position: the transform of the cell, and
\* what render_fn draws under it
CellTransform(lay, position, rot) ==
    TransformNew(lay.offset + position[1] * lay.cell,
                 lay.offset + position[2] * lay.cell,
                 lay.cell, rot % 4)

RenderFn(g, t, color, background_color, cell_size, shape_index, pos) ==
    IF g.render_fn = "outer"
    THEN render_outer(t, color, background_color, cell_size, shape_index, pos)
    ELSE render_center(t, color, background_color, cell_size, shape_index, pos)

\* how a call ends at a negative u32 subtraction: a panic with overflow checks,
\* a wrapped value without
Underflow == IF debug THEN "panic" ELSE "wrapped"

-----------------------------------------------------------------------------
(* render_identicon, step by step *)

Nibbles == into_nibbles(hash)

\* lib.rs 470-476: the canvas and the layout
RenderStart ==
    /\ pc = "start"
    /\ image' = ImageNew(config.size, config.background_color)
    /\ layout' = Layout(config)
    /\ IF Layout(config).ok
       THEN pc' = "colors" /\ outcome' = "none"
       ELSE pc' = "end" /\ outcome' = Underflow
    /\ UNCHANGED <<debug, builderVars, call, config, hash, hue, color_candidates,
                   selected_indices, group, position_index, rotation,
                   current_transform, run, first>>

\* lib.rs 478-480: the nibbles, the hue and the palette
DeriveColors ==
    /\ pc = "colors"
    /\ hue' = HashHue(Nibbles)
    /\ LET resolved == resolve_hue(config, HashHue(Nibbles))
       IN IF resolved.ok
          THEN /\ color_candidates' = ColorCandidates(config, resolved.hue)
               /\ pc' = "roles"
               /\ UNCHANGED outcome
          ELSE /\ pc' = "end"
               /\ outcome' = "panic"
               /\ UNCHANGED color_candidates
    /\ UNCHANGED <<debug, builderVars, call, config, hash, image, layout, selected_indices,
                   group, position_index, rotation, current_transform, run, first>>

\* lib.rs 482-510: the role indices, then ShapeRenderer::new
SelectRoles ==
    /\ pc = "roles"
    /\ selected_indices' = SelectIndices(SelectedIndicesInit, Nibbles)
    /\ current_transform' = TransformDefault
    /\ group' = 1
    /\ pc' = "shape"
    /\ UNCHANGED <<debug, builderVars, call, config, hash, outcome, image, layout, hue,
                   color_candidates, position_index, rotation, run, first>>

\* render_shape is entered for the group (lib.rs 260-261)
RenderShape ==
    /\ pc = "shape"
    /\ rotation' = RotationSeed(Nibbles, Groups[group].rotation_index)
    /\ position_index' = 0
    /\ pc' = "cell"
    /\ UNCHANGED <<debug, builderVars, call, config, hash, outcome, image, layout, hue,
                   color_candidates, selected_indices, group, current_transform,
                   run, first>>

\* one turn of render_shape's for_each (lib.rs 266-276)
RenderCell ==
    /\ pc = "cell"
    /\ LET g == Groups[group]
           t == CellTransform(layout, g.positions[position_index + 1], rotation)
           color == get_from_rotation_index(color_candidates, selected_indices[g.role])
           drawn == RenderFn(g, t, color, config.background_color, layout.cell,
                             Nibbles[g.shape_index], position_index)
       IN /\ current_transform' = t
          /\ rotation' = (rotation + 1) % 256
          /\ IF drawn.ok
             THEN /\ image' = [image EXCEPT !.draws = image.draws \o drawn.draws]
                  /\ UNCHANGED outcome
                  /\ IF position_index + 1 < Len(g.positions)
                     THEN /\ position_index' = position_index + 1
                          /\ UNCHANGED <<pc, group>>
                     ELSE /\ position_index' = position_index + 1
                          /\ IF group < Len(Groups)
                             THEN group' = group + 1 /\ pc' = "shape"
                             ELSE pc' = "return" /\ UNCHANGED group
             ELSE /\ outcome' = Underflow
                  /\ pc' = "end"
                  /\ UNCHANGED <<image, position_index, group>>
    /\ UNCHANGED <<debug, builderVars, call, config, hash, layout, hue, color_candidates,
                   selected_indices, run, first>>

\* lib.rs 538: the image is returned
Return ==
    /\ pc = "return"
    /\ outcome' = "returned"
    /\ pc' = "end"
    /\ UNCHANGED <<debug, builderVars, call, config, hash, image, layout, hue,
                   color_candidates, selected_indices, group, position_index,
                   rotation, current_transform, run, first>>

\* the caller keeps what the call gave and calls render_identicon again with the
\* same hash and configuration
RenderAgain ==
    /\ pc = "end"
    /\ run = 1
    /\ first' = [outcome |-> outcome, image |-> image]
    /\ run' = 2
    /\ pc' = "start"
    /\ outcome' = "none"
    /\ UNCHANGED <<debug, builderVars, call, config, hash, image, layout, hue,
                   color_candidates, selected_indices, group, position_index,
                   rotation, current_transform>>

\* the hash of the given 40 nibbles
FromNibbles(n) == [i \in 0..19 |-> n[i * 2] * 16 + n[i * 2 + 1]]

\* the nibbles render_identicon indexes: shape selectors and rotation seeds
\* (lib.rs 534-536), role selectors (lib.rs 492-494), the hue field (lib.rs 479)
ReadNibbles == {1, 2, 3, 4, 5, 8, 9, 10} \cup 33..39

\* values for the nibbles that are not read: one value everywhere, or a single
\* nibble set
Fills ==
    {[i \in 0..39 |-> v] : v \in {5, 15}}
    \cup {[i \in 0..39 |-> IF i = k THEN 15 ELSE 0] : k \in (0..39) \ ReadNibbles}

\* the caller keeps what the call gave and calls render_identicon with the same
\* configuration and another hash, one that has the same nibbles where
\* render_identicon reads them
RenderOther(fill) ==
    /\ pc = "end"
    /\ run = 1
    /\ first' = [outcome |-> outcome, image |-> image, hash |-> hash]
    /\ hash' = FromNibbles([i \in 0..39 |->
                               IF i \in ReadNibbles THEN Nibbles[i] ELSE fill[i]])
    /\ run' = 2
    /\ pc' = "start"
    /\ outcome' = "none"
    /\ UNCHANGED <<debug, builderVars, call, config, image, layout, hue,
                   color_candidates, selected_indices, group, position_index,
                   rotation, current_transform>>

-----------------------------------------------------------------------------
(* Specifications *)

ZeroHash == [i \in 0..19 |-> 0]

\* the hash whose nibbles are the given ones where given, and 0 elsewhere
HashOf(given) ==
    LET n == [i \in 0..39 |-> IF i \in DOMAIN given THEN given[i] ELSE 0]
    IN [i \in 0..19 |-> n[i * 2] * 16 + n[i * 2 + 1]]

BuilderIdle ==
    /\ builder = DefaultConfig
    /\ stage = 0
    /\ built = NotBuilt

RenderIdle(at) ==
    /\ pc = at
    /\ outcome = "none"
    /\ image = NoImage
    /\ layout = [ok |-> TRUE, padding |-> 0, size |-> 0, cell |-> 0, offset |-> 0]
    /\ hue = R(0, 1)
    /\ color_candidates = ColorCandidates(DefaultConfig, R(0, 1))
    /\ selected_indices = [i \in 0..2 |-> Unassigned]
    /\ group = 0
    /\ position_index = 0
    /\ rotation = 0
    /\ current_transform = TransformDefault
    /\ run = 1
    /\ first = [outcome |-> "none", image |-> NoImage]
    /\ call = NoCall

RenderNext ==
    \/ RenderStart
    \/ DeriveColors
    \/ SelectRoles
    \/ RenderShape
    \/ RenderCell
    \/ Return
    \/ RenderAgain

\* the builder: every chain of setter calls over the input sets, then build
InitBuild ==
    /\ debug \in BOOLEAN
    /\ BuilderIdle
    /\ config = DefaultConfig
    /\ hash = ZeroHash
    /\ RenderIdle("idle")

BuildNext ==
    \/ \E h \in HuesInputs : SetHues(h)
    \/ \E form \in RangeForms, a \in LightnessStarts, b \in LightnessEnds :
          SetColorLightness(form, a, b)
    \/ \E form \in RangeForms, a \in LightnessStarts, b \in LightnessEnds :
          SetGrayscaleLightness(form, a, b)
    \/ \E x \in SaturationInputs : SetColorSaturation(x)
    \/ \E x \in GrayscaleSaturationInputs : SetGrayscaleSaturation(x)
    \/ \E c \in BackgroundInputs : SetBackgroundColor(c)
    \/ \E x \in PaddingInputs : SetPadding(x)
    \/ \E n \in SizeInputs : SetSize(n)
    \/ Build

SpecBuild == InitBuild /\ [][BuildNext]_vars

\* the largest canvas of the renderer's specifications
MaxSize == 48

\* hashes that between them give every outer shape under every rotation seed to
\* the side and to the corner group, and every nibble to the center shape
ShapeHashes ==
    {HashOf((1 :> k) @@ (2 :> k) @@ (3 :> k \div 4) @@ (4 :> 15 - k)
            @@ (5 :> 4 + ((k \div 4 + 1) % 4)) @@ (8 :> k) @@ (9 :> (k * 3) % 16)
            @@ (10 :> (k * 7) % 16)) : k \in 0..15}

\* the paddings the builder accepts that the renderer is run with
RenderPaddings == {R(0, 1), R(8, 100), R(1, 4), R(1, 2)}

\* the renderer over canvas sizes, paddings and shapes
InitRender ==
    /\ debug \in BOOLEAN
    /\ BuilderIdle
    /\ config \in {[DefaultConfig EXCEPT !.size = n, !.padding = p] :
                     n \in 1..MaxSize, p \in RenderPaddings}
    /\ hash \in ShapeHashes
    /\ RenderIdle("start")

SpecRender == InitRender /\ [][RenderNext]_vars

\* the renderer over every triple of role selector nibbles
InitRoles ==
    /\ debug = FALSE
    /\ BuilderIdle
    /\ config = DefaultConfig
    /\ hash \in {HashOf((8 :> a) @@ (9 :> b) @@ (10 :> c)) : a, b, c \in 0..15}
    /\ RenderIdle("start")

SpecRoles == InitRoles /\ [][RenderNext]_vars

\* the renderer over hue fields and allowed-hue sets: the leading nibble of the
\* field takes four values, each of the other six is all zeroes or all ones
HueHashes ==
    {HashOf((33 :> a) @@ (34 :> b[1]) @@ (35 :> b[2]) @@ (36 :> b[3])
            @@ (37 :> b[4]) @@ (38 :> b[5]) @@ (39 :> b[6])) :
       a \in {0, 5, 10, 15}, b \in [1..6 -> {0, 15}]}

AllowedHues ==
    {<<>>,
     <<Degrees(0)>>,
     <<Degrees(0), Degrees(180)>>,
     <<Degrees(0), Degrees(120), Degrees(240)>>}

InitHue ==
    /\ debug \in BOOLEAN
    /\ BuilderIdle
    /\ config \in {[DefaultConfig EXCEPT !.hues = h] : h \in AllowedHues}
    /\ hash \in HueHashes
    /\ RenderIdle("start")

SpecHue == InitHue /\ [][RenderNext]_vars

\* the renderer under the default configuration
InitDefault ==
    /\ debug \in BOOLEAN
    /\ BuilderIdle
    /\ config = DefaultConfig
    /\ hash \in ShapeHashes \cup {ZeroHash}
    /\ RenderIdle("start")

SpecDefault == InitDefault /\ [][RenderNext]_vars

-----------------------------------------------------------------------------
(* ShapeRenderer on its own: one call of a drawing method on a renderer whose
   current transform is any cell under any rotation *)

\* the largest cell of the renderer's own specification
MaxCellSize == 2

\* the cell origins of the renderer's own specification
Origins == {<<0, 0>>, <<1, 2>>}

\* shape-local points and extents
LocalPoints == (0..MaxCellSize) \X (0..MaxCellSize)

\* the ROTATION parameters of triangle
TriangleRotations == 0..4

Ink == Named("black")

\* what a drawing method does to the renderer: the draw call reaches the image
\* unless a u32 subtraction of the transform went below zero
DrawWith(called, drawn) ==
    /\ pc = "renderer"
    /\ outcome = "none"
    /\ call = NoCall
    /\ call' = called
    /\ IF drawn.ok
       THEN image' = [image EXCEPT !.draws = image.draws \o drawn.draws]
            /\ UNCHANGED outcome
       ELSE outcome' = Underflow /\ UNCHANGED image
    /\ UNCHANGED <<debug, builderVars, config, hash, pc, layout, hue,
                   color_candidates, selected_indices, group, position_index,
                   rotation, current_transform, run, first>>

DrawPolygon(point) ==
    DrawWith(MethodCall("polygon", 0, point, <<0, 0>>),
             Polygon(current_transform, Ink, <<point>>))

DrawCircle(top_left, diameter) ==
    DrawWith(MethodCall("circle", 0, top_left, <<diameter, diameter>>),
             Circle(current_transform, Ink, top_left, diameter))

DrawTriangle(ROTATION, top_left, size) ==
    DrawWith(MethodCall("triangle", ROTATION, top_left, size),
             Triangle(current_transform, ROTATION, Ink, top_left, size))

DrawRectangle(top_left, size) ==
    DrawWith(MethodCall("rectangle", 0, top_left, size),
             Rectangle(current_transform, Ink, top_left, size))

DrawRhombus(top_left, size) ==
    DrawWith(MethodCall("rhombus", 0, top_left, size),
             Rhombus(current_transform, Ink, top_left, size))

InitRenderer ==
    /\ debug \in BOOLEAN
    /\ BuilderIdle
    /\ config = DefaultConfig
    /\ hash = ZeroHash
    /\ pc = "renderer"
    /\ outcome = "none"
    /\ image = ImageNew(2 + MaxCellSize, Named("white"))
    /\ layout = [ok |-> TRUE, padding |-> 0, size |-> 0, cell |-> 0, offset |-> 0]
    /\ hue = R(0, 1)
    /\ color_candidates = ColorCandidates(DefaultConfig, R(0, 1))
    /\ selected_indices = [i \in 0..2 |-> Unassigned]
    /\ group = 0
    /\ position_index = 0
    /\ rotation = 0
    /\ current_transform \in
          {TransformNew(o[1], o[2], size, rot % 4) :
             o \in Origins, size \in 0..MaxCellSize, rot \in 0..3}
    /\ run = 1
    /\ first = [outcome |-> "none", image |-> NoImage]
    /\ call = NoCall

RendererNext ==
    \/ \E p \in LocalPoints : DrawPolygon(p)
    \/ \E p \in LocalPoints, d \in 0..MaxCellSize : DrawCircle(p, d)
    \/ \E k \in TriangleRotations, p \in LocalPoints, s \in LocalPoints :
          DrawTriangle(k, p, s)
    \/ \E p \in LocalPoints, s \in LocalPoints : DrawRectangle(p, s)
    \/ \E p \in LocalPoints, s \in LocalPoints : DrawRhombus(p, s)

SpecRenderer == InitRenderer /\ [][RendererNext]_vars

\* the renderer under the default configuration over every pair of rotation
\* seeds, with shapes that vary with them
SeedHashes ==
    {HashOf((3 :> a) @@ (5 :> b) @@ (2 :> a % 4) @@ (4 :> b % 4)
            @@ (1 :> (a + b) % 16)) : a, b \in 0..15}

InitSeeds ==
    /\ debug \in BOOLEAN
    /\ BuilderIdle
    /\ config = DefaultConfig
    /\ hash \in SeedHashes
    /\ RenderIdle("start")

SpecSeeds == InitSeeds /\ [][RenderNext]_vars

\* the renderer called twice, with hashes that differ where it does not read:
\* every shape, seeds, role selectors and hue fields in the first hash
InputHashes ==
    {HashOf((1 :> k) @@ (2 :> k) @@ (3 :> k \div 4) @@ (4 :> 15 - k)
            @@ (5 :> (k * 5) % 16) @@ (8 :> k) @@ (9 :> (k * 3) % 16)
            @@ (10 :> (k * 7) % 16) @@ (33 :> k) @@ (36 :> 15 - k) @@ (39 :> k)) :
       k \in 0..15}

InitInputs ==
    /\ debug \in BOOLEAN
    /\ BuilderIdle
    /\ config = DefaultConfig
    /\ hash \in InputHashes
    /\ RenderIdle("start")

InputsNext ==
    \/ RenderStart
    \/ DeriveColors
    \/ SelectRoles
    \/ RenderShape
    \/ RenderCell
    \/ Return
    \/ \E fill \in Fills : RenderOther(fill)

SpecInputs == InitInputs /\ [][InputsNext]_vars

-----------------------------------------------------------------------------
(* Properties *)

\* the layout, the hue and the role indices of the call in progress are computed
LayoutDone == pc \notin {"idle", "start"}

ColorsDone == pc \notin {"idle", "start", "colors"} /\ outcome \in {"none", "returned"}

RolesDone == pc \in {"shape", "cell", "return"} \/ (pc = "end" /\ outcome = "returned")

WithinUnit(r) == Le(R(0, 1), r.start) /\ Le(r.end, R(1, 1))

ClaimedBuild(c) ==
    IF \E i \in 1..Len(c.hues) : ~(Le(Degrees(0), c.hues[i]) /\ Lt(c.hues[i], Degrees(360)))
    THEN "InvalidHues"
    ELSE IF ~WithinUnit(c.color_lightness) THEN "InvalidColorLightness"
    ELSE IF ~WithinUnit(c.grayscale_lightness) THEN "InvalidGrayscaleLightness"
    ELSE IF ~(Le(R(0, 1), c.color_saturation) /\ Le(c.color_saturation, R(1, 1)))
    THEN "InvalidColorSaturation"
    ELSE IF ~(Le(R(0, 1), c.grayscale_saturation) /\ Le(c.grayscale_saturation, R(1, 1)))
    THEN "InvalidGrayscaleSaturation"
    ELSE IF ~(Le(R(0, 1), c.padding) /\ Le(c.padding, R(1, 2)))
    THEN "InvalidPadding"
    ELSE "none"

\* C2: build returns Ok(config) exactly when no constraint is violated, and
\* otherwise the error of the first violated constraint in the order hues, color
\* lightness, grayscale lightness, color saturation, grayscale saturation,
\* padding; a lightness range is within [0,1] when 0 <= start and end <= 1.
C2_BuildFailsFast ==
    built.status \in {"ok", "err"} =>
        /\ built.err = ClaimedBuild(builder)
        /\ (built.status = "ok") = (ClaimedBuild(builder) = "none")
        /\ built.status = "ok" => built.config = builder

\* the rule of the role selector, from the indices assigned to earlier roles
RECURSIVE RuleIndices(_, _)
RuleIndices(raw, n) ==
    IF n = 0
    THEN <<>>
    ELSE LET before == RuleIndices(raw, n - 1)
             earlier == {before[j] : j \in 1..(n - 1)}
             candidate == raw[n] % 5
         IN Append(before,
                   IF candidate \in {0, 4} /\ earlier \cap {0, 4} # {}
                   THEN 1
                   ELSE IF candidate \in {2, 3} /\ earlier \cap {2, 3} # {}
                   THEN 1
                   ELSE candidate)

RawSelectors == <<Nibbles[8], Nibbles[9], Nibbles[10]>>

Selected == <<selected_indices[0], selected_indices[1], selected_indices[2]>>

\* C3: the role indices follow the in-order avoidance rule for every triple of
\* selectors: each is reduced mod 5, and in the order side, corner, center a
\* candidate in {0,4} (in {2,3}) becomes 1 exactly when 0 or 4 (2 or 3) is among
\* the indices of the earlier roles; every index is in 0..4; (0,4,2) gives
\* (0,1,2) and (0,0,3) gives (0,1,3).
C3_RoleSelection ==
    RolesDone =>
        /\ Selected = RuleIndices(RawSelectors, 3)
        /\ \A i \in 0..2 : selected_indices[i] \in 0..4
        /\ RawSelectors = <<0, 4, 2>> => Selected = <<0, 1, 2>>
        /\ RawSelectors = <<0, 0, 3>> => Selected = <<0, 1, 3>>

C3_Witness ==
    /\ RolesDone
    /\ RawSelectors = <<5, 14, 8>>
    /\ Selected = <<0, 1, 3>>

\* the device coordinates of a draw call: the vertices of a polygon, the two
\* corners of the bounding box of an ellipse, the two corners of a rectangle
Coordinates(d) ==
    IF d.kind = "rectangle"
    THEN {d.pts[1], <<d.pts[1][1] + d.pts[2][1], d.pts[1][2] + d.pts[2][2]>>}
    ELSE {d.pts[i] : i \in 1..Len(d.pts)}

ZeroArea(d) ==
    CASE d.kind = "rectangle" -> d.pts[2][1] = 0 \/ d.pts[2][2] = 0
      [] d.kind = "ellipse" -> d.pts[1] = d.pts[2]
      [] OTHER -> \A i \in 1..Len(d.pts) : d.pts[i] = d.pts[1]

\* C5: with padding 0.5 the drawable region has size 0 and cell size 0, no u32
\* subtraction goes below zero (no panic, no wrapped value), the call returns
\* and nothing is painted over the background.
C5_PaddingHalf ==
    (config.padding = R(1, 2) /\ pc = "end") =>
        /\ outcome = "returned"
        /\ layout.size = 0
        /\ layout.cell = 0
        /\ \A i \in 1..Len(image.draws) : ZeroArea(image.draws[i])

\* C9 as stated: with padding 0 the grid offset is 0 and offset + 4 * cell is the
\* canvas size.
C9_FullBleed ==
    (config.padding = R(0, 1) /\ LayoutDone) =>
        /\ layout.offset = 0
        /\ layout.offset + 4 * layout.cell = config.size

\* C9, amended: with padding 0 the grid is centred with the remainder of size / 4
\* around it: offset = (size mod 4) div 2 and offset + 4 * cell =
\* size - (size mod 4 + 1) div 2; it touches all four edges (offset 0, and
\* offset + 4 * cell = size) exactly when size is a multiple of 4.
C9_CentredGrid ==
    (config.padding = R(0, 1) /\ LayoutDone) =>
        /\ layout.ok
        /\ layout.padding = 0
        /\ layout.offset = (config.size % 4) \div 2
        /\ layout.offset + 4 * layout.cell = config.size - ((config.size % 4) + 1) \div 2
        /\ (layout.offset = 0 /\ layout.offset + 4 * layout.cell = config.size)
              <=> config.size % 4 = 0

C9_Witness ==
    /\ config.padding = R(0, 1)
    /\ LayoutDone
    /\ config.size % 4 = 3
    /\ layout.offset = 1
    /\ layout.cell >= 1

\* the hue the palette is computed from
PaletteHue == color_candidates.mid_color.h

\* C6: with a non-empty allowed-hue set of N validated hues the index
\* floor(hue / 360 * N) lies in 0..N-1, the hue of the palette is an element of
\* the set, and rendering raises no error.
C6_HueIndexInRange ==
    (Len(config.hues) > 0 /\ pc \notin {"idle", "start", "colors"}) =>
        /\ ResolveHueIndex(config, hue) \in 0..(Len(config.hues) - 1)
        /\ outcome # "panic"
        /\ \E i \in 1..Len(config.hues) : PaletteHue = config.hues[i]

\* C7: the hue 360 * value / (2^28 - 1) of the 7-nibble field at nibble 33 lies
\* in [0, 360).
C7_HueHalfOpen ==
    pc \notin {"idle", "start", "colors"} =>
        /\ hue = R(hash_substring_u32(Nibbles, 33, 7), HueDivisor)
        /\ Le(R(0, 1), hue)
        /\ Lt(hue, FullTurn)

\* the draw calls of the side, the corner and the center group when each cell
\* takes one draw call
SideDraws == 1..8

CornerDraws == 9..12

CenterDraws == 13..16

DefaultScenario ==
    /\ hash = ZeroHash
    /\ config = DefaultConfig
    /\ pc = "end"
    /\ outcome = "returned"

\* C8 as stated: for the hash of 20 zero bytes and the default configuration the
\* hue is 0, the three selectors are 0, the role indices are (0,1,1), the side
\* and center groups are drawn with palette[1] (mid-color) and the corner group
\* with palette[0] (dark-gray).
C8_ZeroHashAsStated ==
    (hash = ZeroHash /\ config = DefaultConfig /\ pc = "end") =>
        /\ outcome = "returned"
        /\ Len(image.draws) = 16
        /\ hue.num = 0
        /\ RawSelectors = <<0, 0, 0>>
        /\ Selected = <<0, 1, 1>>
        /\ \A i \in SideDraws \cup CenterDraws :
               image.draws[i].color = color_candidates.mid_color
        /\ \A i \in CornerDraws : image.draws[i].color = color_candidates.dark_gray

\* C8, amended: for the hash of 20 zero bytes and the default configuration the
\* hue is 0, the three selectors are 0, the role indices are (side, corner,
\* center) = (0,1,1), the side group is drawn with palette[0] (dark-gray) and
\* the corner and center groups with palette[1] (mid-color).
C8_ZeroHash ==
    (hash = ZeroHash /\ config = DefaultConfig /\ pc = "end") =>
        /\ outcome = "returned"
        /\ Len(image.draws) = 16
        /\ hue.num = 0
        /\ RawSelectors = <<0, 0, 0>>
        /\ Selected = <<0, 1, 1>>
        /\ \A i \in SideDraws : image.draws[i].color = color_candidates.dark_gray
        /\ \A i \in CornerDraws \cup CenterDraws :
               image.draws[i].color = color_candidates.mid_color
        /\ color_candidates.dark_gray # color_candidates.mid_color

C8_Witness ==
    /\ DefaultScenario
    /\ image.size = DefaultSize
    /\ image.draws[1].color = color_candidates.dark_gray
    /\ image.draws[16].color = color_candidates.mid_color

\* the bounds of a range expression: a missing start is 0, a missing end is 1
ValidBounds(form, a, b) ==
    LET lower == IF form \in {"..b", "..=b"} THEN R(0, 1) ELSE a
        upper == IF form = "a.." THEN R(1, 1) ELSE b
    IN Le(R(0, 1), lower) /\ Lt(lower, upper) /\ Le(upper, R(1, 1))

SubRangeOfUnit(r) == Le(R(0, 1), r.start) /\ Le(r.start, r.end) /\ Le(r.end, R(1, 1))

NormalizedAndAccepted(field, err) ==
    /\ built'.status # "panic"
    /\ SubRangeOfUnit(builder'[field])
    /\ BuildResult(builder').err # err

\* C10: for every range form whose bounds satisfy 0 <= a < b <= 1, normalize
\* yields an inclusive sub-range of [0,1] (no assertion of normalize fails) and
\* build does not answer InvalidColorLightness or InvalidGrayscaleLightness.
C10_NormalizedRangeAccepted ==
    [][\A form \in RangeForms, a \in LightnessStarts, b \in LightnessEnds :
         ValidBounds(form, a, b) =>
            /\ SetColorLightness(form, a, b) =>
                 NormalizedAndAccepted("color_lightness", "InvalidColorLightness")
            /\ SetGrayscaleLightness(form, a, b) =>
                 NormalizedAndAccepted("grayscale_lightness",
                                       "InvalidGrayscaleLightness")]_vars

-----------------------------------------------------------------------------
(* The cell transform and the triangle *)

\* the side of the cell of a transform
CellSize(t) == t.right - t.x

\* a device point turned a quarter clockwise (y grows downwards) about the
\* centre (x + size/2, y + size/2) of the cell
QuarterTurn(t, P) == <<t.x + t.y + CellSize(t) - P[2], t.y - t.x + P[1]>>

Turned(t, P) ==
    CASE t.rotation = 0 -> P
      [] t.rotation = 1 -> QuarterTurn(t, P)
      [] t.rotation = 2 -> QuarterTurn(t, QuarterTurn(t, P))
      [] OTHER -> QuarterTurn(t, QuarterTurn(t, QuarterTurn(t, P)))

\* the corners of a shape-local box, turned with the cell
TurnedCorners(t, p, box) ==
    {Turned(t, <<t.x + p[1] + dx, t.y + p[2] + dy>>) :
       dx \in {0, box[1]}, dy \in {0, box[2]}}

Least(S) == CHOOSE n \in S : \A m \in S : n <= m

\* the top-left corner of the turned box
TurnedTopLeft(t, p, box) ==
    <<Least({c[1] : c \in TurnedCorners(t, p, box)}),
      Least({c[2] : c \in TurnedCorners(t, p, box)})>>

\* the four cases as the claim lists them
ListedTopLeft(t, p, box) ==
    CASE t.rotation = 0 -> <<t.x + p[1], t.y + p[2]>>
      [] t.rotation = 1 -> <<t.right - p[2] - box[2], t.y + p[1]>>
      [] t.rotation = 2 -> <<t.right - p[1] - box[1], t.bottom - p[2] - box[2]>>
      [] OTHER -> <<t.x + p[2], t.bottom - p[1] - box[1]>>

InsideCell(t, S) ==
    \A c \in S : c[1] \in t.x..t.right /\ c[2] \in t.y..t.bottom

FitsCell(t, p, box) ==
    p[1] + box[1] <= CellSize(t) /\ p[2] + box[2] <= CellSize(t)

\* the transformed point that the call has drawn first
DrawnAt == image.draws[1].pts[1]

\* a rectangle, a circle or a one-vertex polygon was called with a box that fits
\* the cell: its top-left corner went through Transform::transform
BoxCalled ==
    /\ pc = "renderer"
    /\ call.method \in {"rectangle", "circle", "polygon"}
    /\ FitsCell(current_transform, call.top_left, call.size)

\* C11: for every cell, rotation and shape-local box that fits the cell,
\* Transform::transform returns the top-left corner of the box turned clockwise
\* by rotation quarter turns about the cell centre, as the four listed cases
\* give it, and the turned box stays inside the cell.  Observed on the position
\* of a rectangle, the bounding box of a circle and a vertex of a polygon.
C11_RotationalViews ==
    BoxCalled =>
        /\ outcome = "none"
        /\ Len(image.draws) = 1
        /\ DrawnAt = TurnedTopLeft(current_transform, call.top_left, call.size)
        /\ DrawnAt = ListedTopLeft(current_transform, call.top_left, call.size)
        /\ InsideCell(current_transform,
                      TurnedCorners(current_transform, call.top_left, call.size))

\* a 2 by 1 rectangle at (0, 1) drawn under rotation 1 in a cell of side 2
C11_Witness ==
    /\ BoxCalled
    /\ call = MethodCall("rectangle", 0, <<0, 1>>, <<2, 1>>)
    /\ current_transform.rotation = 1
    /\ CellSize(current_transform) = 2
    /\ image.draws[1].pts =
          <<<<current_transform.x, current_transform.y>>, <<1, 3>>>>

\* the corners of the shape-local bounding box
BoxCorner(name, p, size) ==
    CASE name = "top-left" -> p
      [] name = "top-right" -> <<p[1] + size[1], p[2]>>
      [] name = "bottom-right" -> <<p[1] + size[1], p[2] + size[2]>>
      [] OTHER -> <<p[1], p[2] + size[2]>>

CornerNames == {"top-left", "top-right", "bottom-right", "bottom-left"}

\* the vertices the triangle call has drawn
DrawnVertices == {image.draws[1].pts[i] : i \in 1..Len(image.draws[1].pts)}

\* triangle was called and no subtraction of the transform went below zero
TriangleCalled == pc = "renderer" /\ call.method = "triangle" /\ outcome = "none"

\* the call drew the corners of the box other than the one that
\* order[ROTATION mod 4] names, each under the current transform
DrawsAllBut(order) ==
    /\ Len(image.draws) = 1
    /\ image.draws[1].kind = "polygon"
    /\ Len(image.draws[1].pts) = 3
    /\ DrawnVertices =
          {Transform(current_transform, BoxCorner(name, call.top_left, call.size),
                     <<0, 0>>) :
             name \in CornerNames \ {order[(call.ROTATION % 4) + 1]}}

\* C12 as stated: k mod 4 = 0, 1, 2, 3 omits the top-left, top-right,
\* bottom-right, bottom-left corner of the bounding box.
C12_TriangleAsStated ==
    TriangleCalled =>
        DrawsAllBut(<<"top-left", "top-right", "bottom-right", "bottom-left">>)

\* C12, amended: k mod 4 = 0, 1, 2, 3 omits the top-right, bottom-right,
\* bottom-left, top-left corner of the shape-local bounding box; the three
\* corners that remain are drawn as one polygon under the current transform.
C12_Triangle ==
    TriangleCalled =>
        DrawsAllBut(<<"top-right", "bottom-right", "bottom-left", "top-left">>)

\* triangle::<4> over a 2 by 1 box at the cell origin, unrotated: the top-right
\* corner is the one left out
C12_Witness ==
    /\ TriangleCalled
    /\ call = MethodCall("triangle", 4, <<0, 0>>, <<2, 1>>)
    /\ current_transform = TransformNew(0, 0, 2, 0)
    /\ image.draws[1].pts = <<<<2, 1>>, <<0, 1>>, <<0, 0>>>>

-----------------------------------------------------------------------------
(* What the compositor reads from the hash *)

\* nibble i of the hash in terms of its bytes: the high half of byte i div 2
\* when i is even, the low half when i is odd
NibbleOf(h, i) == IF i % 2 = 0 THEN h[i \div 2] \div 16 ELSE h[i \div 2] % 16

NibbleAt(i) == NibbleOf(hash, i)

\* the nibble indices of the shape selector and of the rotation seed of the
\* side, corner and center group (-1: no seed), and of the three role selectors
ShapeNibble == <<2, 4, 1>>
SeedNibble == <<3, 5, -1>>
RoleNibbles == <<8, 9, 10>>

SeedOf(g) == IF SeedNibble[g] < 0 THEN 0 ELSE NibbleAt(SeedNibble[g])

\* the draw calls of cell n of group g when the selectors are those nibbles
CellDrawn(g, n) ==
    RenderFn(Groups[g],
             CellTransform(layout, Groups[g].positions[n], SeedOf(g) + n - 1),
             get_from_rotation_index(color_candidates, selected_indices[g - 1]),
             config.background_color, layout.cell, NibbleAt(ShapeNibble[g]),
             n - 1).draws

RECURSIVE CellsDrawn(_, _)
CellsDrawn(g, n) == IF n = 0 THEN <<>> ELSE CellsDrawn(g, n - 1) \o CellDrawn(g, n)

ExpectedDraws == CellsDrawn(1, 8) \o CellsDrawn(2, 4) \o CellsDrawn(3, 4)

\* render_shape has just been entered for a group that has a rotation seed
SeedRead == pc = "cell" /\ position_index = 0 /\ SeedNibble[group] >= 0

Returned == pc = "end" /\ outcome = "returned"

\* C13 as stated: a selector the compositor consumes is a raw byte of the hash.
\* Stated for the rotation seed, which render_shape holds in its counter when
\* it is entered: it is the value of one of the 20 input bytes.
C13_SelectorsAreBytes ==
    SeedRead => \E j \in 0..19 : rotation = hash[j]

\* C13, amended: every selector is a single nibble (0..15) of the hash, the high
\* half of byte i div 2 for an even nibble index i and the low half for an odd
\* one: the side, corner and center shape selectors are nibbles 2, 4 and 1, the
\* side and corner rotation seeds nibbles 3 and 5, the role selectors nibbles
\* 8, 9 and 10; mod 4, mod 14 and mod 5 are taken over those nibbles.
C13_SelectorsAreNibbles ==
    /\ SeedRead => (rotation = SeedOf(group) /\ rotation \in 0..15)
    /\ RolesDone =>
          Selected = RuleIndices([i \in 1..3 |-> NibbleAt(RoleNibbles[i])], 3)
    /\ Returned => image.draws = ExpectedDraws

\* a finished render of a hash whose side rotation seed is the low nibble 1 of
\* the byte 0x41
C13_Witness ==
    /\ Returned
    /\ hash[1] = 65
    /\ NibbleAt(3) = 1
    /\ Len(image.draws) >= 12

-----------------------------------------------------------------------------
(* Rotation sequencing *)

\* the cells of the side, corner and center group
GroupCells == <<8, 4, 4>>

\* the draw calls of the groups before g and of the first n cells of g
RECURSIVE DrawnUpTo(_, _)
DrawnUpTo(g, n) ==
    IF g = 1
    THEN CellsDrawn(1, n)
    ELSE DrawnUpTo(g - 1, GroupCells[g - 1]) \o CellsDrawn(g, n)

\* the cell drawn last: its group and its number within the group (0: none yet)
LastCell ==
    CASE pc = "cell" /\ position_index > 0 -> <<group, position_index>>
      [] pc = "cell" /\ position_index = 0 /\ group > 1 ->
            <<group - 1, GroupCells[group - 1]>>
      [] pc = "shape" /\ group > 1 -> <<group - 1, GroupCells[group - 1]>>
      [] pc = "return" \/ Returned -> <<3, GroupCells[3]>>
      [] OTHER -> <<1, 0>>

\* the groups are being drawn, or all have been
Sequencing == pc \in {"shape", "cell", "return"} \/ Returned

\* C14: the groups are drawn in the order side (8 cells), corner (4), center
\* (4), each over its positions in declared order; the cell at position index
\* i is drawn under rotation (seed + i) mod 4, the seed being the group's
\* hash-derived one and 0 for the center group; the current transform is the
\* one of the cell drawn last, set with that cell and not again; the counter is
\* seed + i and stays within 8 bits.
C14_RotationSequencing ==
    Sequencing =>
        /\ group \in 1..3
        /\ \A g \in 1..3 : Len(Groups[g].positions) = GroupCells[g]
        /\ <<Groups[1].render_fn, Groups[2].render_fn, Groups[3].render_fn>>
              = <<"outer", "outer", "center">>
        /\ Groups[1].positions = SIDE_POSITIONS
        /\ Groups[2].positions = CORNER_POSITIONS
        /\ Groups[3].positions = CENTER_POSITIONS
        /\ pc = "cell" =>
              /\ position_index < GroupCells[group]
              /\ rotation = SeedOf(group) + position_index
              /\ rotation <= 255
        /\ image.draws = DrawnUpTo(LastCell[1], LastCell[2])
        /\ IF LastCell[2] = 0
           THEN current_transform = TransformDefault
           ELSE LET at == Groups[LastCell[1]].positions[LastCell[2]]
                IN current_transform =
                      TransformNew(layout.offset + at[1] * layout.cell,
                                   layout.offset + at[2] * layout.cell,
                                   layout.cell,
                                   (SeedOf(LastCell[1]) + LastCell[2] - 1) % 4)

\* the fourth corner cell is about to be drawn, the corner seed being 15: the
\* counter stands at 18 and the third cell was drawn under rotation 1
C14_Witness ==
    /\ pc = "cell"
    /\ group = 2
    /\ position_index = 3
    /\ NibbleAt(5) = 15
    /\ rotation = 18
    /\ current_transform.rotation = 1
    /\ Len(image.draws) = 11

-----------------------------------------------------------------------------
(* Unsigned subtractions *)

\* C15: under every configuration the builder accepts with size >= 1 and every
\* hash, no u32 subtraction of a render goes below zero: not the inner size,
\* not the grid offset, not a term of the transform, not a value local to a
\* shape variant.  (A subtraction below zero ends the call with a panic where
\* overflow is checked and with a wrapped value where it is not.)
C15_NoWrapAround ==
    (BuildResult(config).ok /\ config.size >= 1) =>
        /\ LayoutDone => layout.ok
        /\ outcome \notin {"panic", "wrapped"}

-----------------------------------------------------------------------------
(* Symmetry of the outer groups *)

\* the side and the corner group have been drawn (each outer shape is one draw
\* call, so draw i is side cell i for i in 1..8 and corner cell i - 8 after)
OuterDrawn ==
    /\ group = 3
    /\ pc \in {"shape", "cell", "return", "end"}
    /\ layout.ok

FirstDraw == <<0, 8>>

\* a device point turned a quarter clockwise about the centre of the grid
GridTurn(P) == <<2 * layout.offset + 4 * layout.cell - P[2], P[1]>>

\* the box that two opposite corners span
BoxOf(a, b) ==
    <<Least({a[1], b[1]}), Least({a[2], b[2]}),
      0 - Least({0 - a[1], 0 - b[1]}), 0 - Least({0 - a[2], 0 - b[2]})>>

\* draw call e is draw call d turned a quarter about the grid centre
QuarterImage(d, e) ==
    /\ e.kind = d.kind
    /\ e.color = d.color
    /\ Len(e.pts) = Len(d.pts)
    /\ IF d.kind = "polygon"
       THEN \A v \in 1..Len(d.pts) : e.pts[v] = GridTurn(d.pts[v])
       ELSE BoxOf(e.pts[1], e.pts[2]) = BoxOf(GridTurn(d.pts[1]), GridTurn(d.pts[2]))

\* C16: in the side and in the corner group, the cell at (cx, cy) drawn under
\* rotation r has the cell at (3 - cy, cx) in the same group, drawn under
\* rotation (r + 1) mod 4 with the same shape and colour, and every vertex and
\* every circle box of the second is the image of the first's under the
\* quarter turn (X, Y) -> (2 * offset + 4 * cell - Y, X) about the grid centre.
C16_OuterSymmetry ==
    OuterDrawn =>
        /\ Len(image.draws) >= 12
        /\ \A g \in 1..2 : \A i \in 1..GroupCells[g] :
              LET at == Groups[g].positions[i]
              IN \E j \in 1..GroupCells[g] :
                    /\ Groups[g].positions[j] = <<3 - at[2], at[1]>>
                    /\ (SeedOf(g) + j - 1) % 4 = (((SeedOf(g) + i - 1) % 4) + 1) % 4
                    /\ QuarterImage(image.draws[FirstDraw[g] + i],
                                    image.draws[FirstDraw[g] + j])

\* a finished render with padding whose side cells hold circles and whose
\* corner cells hold triangles, not all in one point
C16_Witness ==
    /\ Returned
    /\ group = 3
    /\ layout.cell >= 6
    /\ layout.offset > 0
    /\ image.draws[1].kind = "ellipse"
    /\ image.draws[1].pts[1] # image.draws[1].pts[2]
    /\ image.draws[9].kind = "polygon"
    /\ Len(image.draws[9].pts) = 3

-----------------------------------------------------------------------------
(* Input dependence *)

\* the second call was given a hash with the first one's nibbles at 1..5,
\* 8..10 and 33..39, and has ended
SecondOfAgreeing ==
    /\ run = 2
    /\ pc = "end"
    /\ "hash" \in DOMAIN first
    /\ \A i \in ReadNibbles : NibbleAt(i) = NibbleOf(first.hash, i)

\* C17: two hashes that agree on nibbles 1, 2, 3, 4, 5 (shapes and rotation
\* seeds), 8, 9, 10 (role selectors) and 33..39 (hue) give the same output under
\* the same configuration, whatever their other 25 nibbles are: the calls end
\* the same way with the same canvas and the same draw calls.
C17_InputDependence ==
    SecondOfAgreeing =>
        /\ outcome = first.outcome
        /\ image.size = first.image.size
        /\ image.background = first.image.background
        /\ image.draws = first.image.draws

\* two finished renders of hashes that differ in an unread nibble
C17_Witness ==
    /\ SecondOfAgreeing
    /\ Returned
    /\ hash # first.hash
    /\ NibbleAt(0) # NibbleOf(first.hash, 0)
    /\ hue.num > 0
    /\ Len(image.draws) >= 16

====
